---- MODULE Spec2Model ----
(***************************************************************************)
(* PetCareApp: the pet life-cycle of src/src/pages/PetCare.jsx.            *)
(*                                                                         *)
(* The remote entity store holds the Pet table (store) and the Expense     *)
(* ledger (expenses).  The PetCare page works on the react-query cache of  *)
(* Pet.list() (cache; `pet` is its first element), which is refreshed only *)
(* by a refetch, and on a few pieces of component state.  The day timer    *)
(* callback progressDay closes over the `pet` of the render in which the   *)
(* day effect last ran (timerPet).                                         *)
(*                                                                         *)
(* Numbers: hunger, happiness, energy, hygiene, health and coins are held  *)
(* in hundredths (50 is 5000), so that 1 + 0.2*g, 0.5 + 0.5*g and          *)
(* (5 + Math.random()*8) * ageMultiplier are exact.  Math.random() is a    *)
(* choice of tenths r in DayRolls.  experience and days_alive are plain    *)
(* integers.                                                               *)
(*                                                                         *)
(* Pet.update requests of the one client session are applied by the store  *)
(* in the order they were issued and the store is read by Refetch, so an   *)
(* update is applied in the step that issues it; the evolution update,     *)
(* whose completion callbacks drive isEvolving, is kept in flight          *)
(* (evoReq) until EvolutionComplete.                                       *)
(***************************************************************************)
EXTENDS Integers, Sequences, FiniteSets, Bags, TLC

S == 100

\* ---- bounds of the model -------------------------------------------------
\* InitNew: a newly adopted pet, a long life with few handler calls
MaxDays == 5
MaxOps == 0
\* InitShop: a newly adopted pet, a short life with more handler calls
ShopDays == 1
ShopOps == 2
\* InitNeglect: a pet left alone for NeglectDays days, then watched
NeglectDays == 8
MoreDays == 3
MoreOps == 1

\* InitTrained, InitTired: a pet that has learned a trick, fresh or after
\* NeglectDays unattended days
TrickDays == 1
TrickOps == 2
\* InitAway: a newly adopted pet whose page is closed and opened again
AwayDays == 3
AwayOps == 1
\* InitFail: a newly adopted pet whose Pet.update requests may fail
FailDays == 2
FailOps == 1
\* InitAdopt: a newly adopted pet, no day passes, handler calls on the
\* PetCare and PetAdopt pages
AdoptOps == 3
\* InitMemorial: a pet left alone for NeglectDays days, watched until it dies
MemorialDays == 2
MemorialOps == 2

\* InitCosts: a newly adopted pet and one left alone for NeglectDays days,
\* whose care actions and insurance are paid for
CostDays == 3
CostOps == 1
\* InitTimer: a newly adopted pet whose page is left and opened again and
\* which is replaced by a newly adopted one
TimerDays == 2
TimerOps == 2
\* InitHealth: a grown pet of any of the stats and healths tried, left alone
HealthDays == 2
\* InitGames: a newly adopted pet that does chores
GameDays == 1
GameOps == 2
\* the ages over which the prices are compared
AgeMax == 12

\* the four Math.random() draws of one progressDay (hunger, hygiene, energy,
\* health), in tenths: all 0.0 or all 0.9
DayRolls == {<<0, 0, 0, 0>>, <<9, 9, 9, 9>>}
\* rewards handed to onComplete by the chores
Rewards == {5, 30}
\* TrashGame: the values of Math.floor(Math.random() * 6) tried
TrashDraws == {0, 5}
\* WindowGame: the clean percentages at which the game is finished
WindowPercents == {75, 100}
\* WireGame: the numbers of wrong matches tried
WireMistakes == {0, 2, 4}
\* progressDay's health rule: the stats <<hunger, happiness, hygiene, energy>>
\* and the health of the pets tried, in percent
StatPatterns == {<<10, 10, 10, 10>>, <<10, 10, 80, 80>>, <<40, 40, 40, 80>>,
                 <<10, 80, 80, 80>>, <<80, 80, 80, 80>>}
HealthLevels == {5, 18, 25, 40, 100}
\* the day durations for which the PetCare page stays closed
AwayChoices == {1, 2}
\* the tricks and toys the user tries to buy
TrickChoices == {"roll", "dance"}
ToyChoices == {"Ball", "Squeaky Toy"}

VARIABLES
  store,            \* Pet table of the entity store: set of Pet records
  expenses,         \* Expense table: bag of Expense records
  cache,            \* react-query data of ['pets']; pet = pets?.[0]
  timerPet,         \* pending dayTimeout: the pet its progressDay closes over
  petDied,          \* useState petDied
  deathStats,       \* useState deathStats: {} (null) or one record
  isEvolving,       \* useState isEvolving
  evoReq,           \* evolution updates in flight
  evoTimer,         \* pending setTimeout(() => setIsEvolving(false), 1000)
  performingTrick,  \* useState performingTrick ("" is null)
  page,             \* route shown: "care" or "adopt"
  clock,            \* Date.now(), counted in day timer firings
  memorials,        \* Memorial table of the entity store: bag of Memorial records
  memorialModal,    \* useState showMemorialModal, memorialType, the position of
                    \* a handleCreateMemorial in progress (isCreatingMemorial
                    \* is pc # "idle") and the memorialData it has built
  activeGame,       \* useState activeGame ("" is null)
  adopting,         \* handleAdopt in progress on the PetAdopt page: its position,
                    \* the listed pets and filtered expenses still to delete, and
                    \* the id the store gives the next created pet
  fuel,             \* remaining day-advances and handler calls (model bound)
  last              \* the handler that ran last and its argument; for a care
                    \* action n is the coins of the pet it was called with

vars == <<store, expenses, cache, timerPet, petDied, deathStats, isEvolving,
          evoReq, evoTimer, performingTrick, page, clock, memorials,
          memorialModal, activeGame, adopting, fuel, last>>

\* the Memorial table and the modal state of the death screen and the chores
memVars == <<memorials, memorialModal, activeGame>>

\* ---- helpers --------------------------------------------------------------
Min(a, b) == IF a < b THEN a ELSE b
Max(a, b) == IF a > b THEN a ELSE b

Includes(seq, x) == \E i \in 1..Len(seq) : seq[i] = x

\* pets?.[0]
ThePet(c) == CHOOSE p \in c : \A q \in c : p.id <= q.id

\* Pet.update(id, data): the store merges the given fields into the record
Merge(p, data) == [f \in DOMAIN p |-> IF f \in DOMAIN data THEN data[f] ELSE p[f]]

PetUpdate(tbl, id, data) == {IF p.id = id THEN Merge(p, data) ELSE p : p \in tbl}

\* Expense.create
ExpenseCreate(tbl, pid, type, amount, description) ==
  tbl (+) SetToBag({[pet_id |-> pid, type |-> type, amount |-> amount,
                     description |-> description]})

\* ---- handleAdopt: the pet Pet.create stores ------------------------------
NewPet(id) ==
  [id |-> id, stage |-> "egg",
   hunger |-> 50 * S, happiness |-> 50 * S, energy |-> 50 * S,
   hygiene |-> 50 * S, health |-> 100 * S,
   experience |-> 0, coins |-> 50 * S, has_insurance |-> FALSE,
   achievements |-> <<>>, days_alive |-> 0, tricks |-> <<>>, toys |-> <<>>,
   last_fed |-> 0]
\* last_fed is left unset by Pet.create; it holds the time the day effect
\* uses in its place, created_date

\* ---- age-scaled prices ----------------------------------------------------
\* getCostMultiplier with the age taken modulo 5
getCostMultiplierCyclic(c) ==
  IF c = {} THEN 100 ELSE 100 + (ThePet(c).days_alive % 5) * 20

\* getCostMultiplier(), in hundredths
getCostMultiplier(c) ==
  IF c = {} THEN 100 ELSE 100 + (ThePet(c).days_alive \div 5) * 20

\* getInsuranceCost(), in hundredths of a coin
getInsuranceCost(c) ==
  IF c = {} THEN 50 ELSE 50 + (ThePet(c).days_alive \div 5) * 50

\* Math.ceil on hundredths
Ceil(x) == ((x + S - 1) \div S) * S

\* CareActions.jsx: the actions table (base cost in coins)
ActionIds == {"feed", "play", "rest", "clean", "health"}
BaseCost(a) ==
  CASE a = "feed" -> 10 [] a = "play" -> 5 [] a = "rest" -> 0
    [] a = "clean" -> 7 [] a = "health" -> 15

\* CareActions.jsx: price shown on the button and its affordability check
actualCost(a, costMultiplier) == Ceil(BaseCost(a) * costMultiplier)
canAfford(a, coins, costMultiplier) == coins >= actualCost(a, costMultiplier)

\* handleCareAction: const cost = baseCost * getCostMultiplier()
CareCost(a, c) == BaseCost(a) * getCostMultiplier(c)

\* ---- the day timer callback ----------------------------------------------
\* number of the four need stats below a limit
CountBelow(p, limit) ==
  Cardinality({f \in {"hunger", "happiness", "hygiene", "energy"} : p[f] < limit})

\* DayHealth with the slow decline also where two stats are critical
DayHealthMild(p, rx) ==
  LET lowStats == CountBelow(p, 50 * S)
      decayed ==
        IF CountBelow(p, 25 * S) >= 2 \/ lowStats >= 3
          THEN {Max(0, p.health - (30 + rx * 4) * 10)}
        ELSE IF lowStats = 0 /\ p.health < 100 * S
          THEN {Min(100 * S, p.health + 5 * S)}
        ELSE {}
  IN IF p.has_insurance /\ (\E h \in decayed : h < 20 * S) THEN {20 * S} ELSE decayed

\* DayHealth with the insurance floor applied to the decays only
DayHealthFloorOnDecay(p, rx) ==
  LET criticalStats == CountBelow(p, 25 * S)
      lowStats == CountBelow(p, 50 * S)
  IN IF criticalStats >= 2
       THEN {IF p.has_insurance THEN Max(20 * S, p.health - (80 + rx * 7) * 10)
             ELSE Max(0, p.health - (80 + rx * 7) * 10)}
     ELSE IF lowStats >= 3
       THEN {IF p.has_insurance THEN Max(20 * S, p.health - (30 + rx * 4) * 10)
             ELSE Max(0, p.health - (30 + rx * 4) * 10)}
     ELSE IF lowStats = 0 /\ p.health < 100 * S
       THEN {Min(100 * S, p.health + 5 * S)}
     ELSE {}

\* progressDay: the health it writes, {} when updates.health stays undefined.
\* rx is the Math.random() of the health decay.
DayHealth(p, rx) ==
  LET criticalStats == CountBelow(p, 25 * S)
      lowStats == CountBelow(p, 50 * S)
      decayed ==
        IF criticalStats >= 2 THEN {Max(0, p.health - (80 + rx * 7) * 10)}
        ELSE IF lowStats >= 3 THEN {Max(0, p.health - (30 + rx * 4) * 10)}
        ELSE IF lowStats = 0 /\ p.health < 100 * S
          THEN {Min(100 * S, p.health + 5 * S)}
        ELSE {}
  IN IF p.has_insurance /\ (\E h \in decayed : h < 20 * S) THEN {20 * S} ELSE decayed

\* progressDay: the updates object handed to updatePetMutation.mutate.
\* rh, rg, re are the Math.random() of the hunger, hygiene and energy decay.
progressDay(p, rh, rg, re, rx, stamp) ==
  LET ageMultiplier == 10 + (p.days_alive \div 15)
      hungerDecay == (50 + rh * 8) * ageMultiplier
      hygieneDecay == (40 + rg * 6) * ageMultiplier
      energyDecay == (30 + re * 4) * ageMultiplier
      happinessDecay == 3 * S
      base == [days_alive |-> p.days_alive + 1,
               last_fed |-> stamp,
               experience |-> p.experience + 1,
               hunger |-> Max(0, p.hunger - hungerDecay),
               hygiene |-> Max(0, p.hygiene - hygieneDecay),
               energy |-> Max(0, p.energy - energyDecay),
               happiness |-> Max(0, p.happiness - happinessDecay)]
      health == DayHealth(p, rx)
      withHealth == IF health = {} THEN base
                    ELSE [health |-> CHOOSE h \in health : TRUE] @@ base
  IN IF p.has_insurance
       THEN [coins |-> Max(0, p.coins - getInsuranceCost({p}))] @@ withHealth
       ELSE withHealth

\* ---- effects run after a render -----------------------------------------
\* dependency list of the day effect: [pet?.id, pet?.days_alive, pet?.last_fed]
DayDeps(c) ==
  IF c = {} THEN <<>> ELSE <<ThePet(c).id, ThePet(c).days_alive, ThePet(c).last_fed>>

\* day effect: a changed dependency clears the old timeout and sets a new one
\* whose progressDay closes over the pet of this render
DayEffect(c, oldc, tp) ==
  IF DayDeps(c) = DayDeps(oldc) THEN tp
  ELSE IF c = {} THEN {} ELSE {ThePet(c)}

\* death effect: pet.health <= 0 && !petDied records the death
DeathObserved(c, died) == c # {} /\ ThePet(c).health <= 0 /\ ~died

DeathStatsOf(p) ==
  [daysLived |-> IF p.days_alive = 0 THEN 1 ELSE p.days_alive,
   happiness |-> p.happiness,
   achievements |-> Len(p.achievements),
   coins |-> p.coins]

\* EvolutionUpdate with the egg branch writing the final stage
EvolutionUpdateSkipsStage(c, evolving) ==
  IF c = {} \/ evolving THEN {}
  ELSE LET p == ThePet(c) IN
    IF p.stage = "egg" /\ p.experience >= 3
      THEN {[id |-> p.id,
             data |-> [stage |-> "grown", experience |-> 0,
                       achievements |-> Append(p.achievements, "hatchling")]]}
    ELSE IF p.stage = "hatchling" /\ p.experience >= 5
      THEN {[id |-> p.id,
             data |-> [stage |-> "grown", experience |-> p.experience,
                       achievements |-> Append(p.achievements, "fully_grown")]]}
    ELSE {}

\* EvolutionUpdate with the egg hatching at 4 experience
EvolutionUpdateAtFour(c, evolving) ==
  IF c = {} \/ evolving THEN {}
  ELSE LET p == ThePet(c) IN
    IF p.stage = "egg" /\ p.experience >= 4
      THEN {[id |-> p.id,
             data |-> [stage |-> "hatchling", experience |-> 0,
                       achievements |-> Append(p.achievements, "hatchling")]]}
    ELSE IF p.stage = "hatchling" /\ p.experience >= 5
      THEN {[id |-> p.id,
             data |-> [stage |-> "grown", experience |-> p.experience,
                       achievements |-> Append(p.achievements, "fully_grown")]]}
    ELSE {}

\* evolution effect: the update it issues, {} when it issues none
EvolutionUpdate(c, evolving) ==
  IF c = {} \/ evolving THEN {}
  ELSE LET p == ThePet(c) IN
    IF p.stage = "egg" /\ p.experience >= 3
      THEN {[id |-> p.id,
             data |-> [stage |-> "hatchling", experience |-> 0,
                       achievements |-> Append(p.achievements, "hatchling")]]}
    ELSE IF p.stage = "hatchling" /\ p.experience >= 5
      THEN {[id |-> p.id,
             data |-> [stage |-> "grown", experience |-> p.experience,
                       achievements |-> Append(p.achievements, "fully_grown")]]}
    ELSE {}

\* all effects of the render that shows cache c with isEvolving = evolving
RunEffects(c, evolving) ==
  /\ timerPet' = DayEffect(c, cache, timerPet)
  /\ petDied' = (petDied \/ DeathObserved(c, petDied))
  /\ deathStats' = IF DeathObserved(c, petDied) THEN {DeathStatsOf(ThePet(c))}
                   ELSE deathStats
  /\ isEvolving' = (evolving \/ EvolutionUpdate(c, evolving) # {})
  /\ evoReq' = evoReq \cup EvolutionUpdate(c, evolving)

\* which screen the component returns
LiveScreen == page = "care" /\ cache # {} /\ ~(petDied /\ deathStats # {})
DeathScreen == page = "care" /\ cache # {} /\ petDied /\ deathStats # {}

Called(op, arg, n) == last' = [op |-> op, arg |-> arg, n |-> n]
UseOp == fuel.ops > 0 /\ fuel' = [fuel EXCEPT !.ops = @ - 1]

\* useState(false), useState('basic'), useState(false)
ClosedModal == [show |-> FALSE, type |-> "basic", pc |-> "idle", data |-> {}]

\* ---- initial states -------------------------------------------------------
\* PetCare has loaded the stored pet and run its effects for the first render
Loaded(stored, timer, days, ops, stamp) ==
  /\ store = {stored}
  /\ expenses = EmptyBag
  /\ cache = store
  /\ timerPet = {timer}
  /\ petDied = DeathObserved(store, FALSE)
  /\ deathStats = IF DeathObserved(store, FALSE) THEN {DeathStatsOf(stored)} ELSE {}
  /\ isEvolving = FALSE
  /\ evoReq = {}
  /\ evoTimer = FALSE
  /\ performingTrick = ""
  /\ page = "care"
  /\ clock = stamp
  /\ memorials = EmptyBag
  /\ memorialModal = ClosedModal
  /\ activeGame = ""
  /\ adopting = [pc |-> "idle", pets |-> {}, exps |-> EmptyBag,
                 nextId |-> stored.id + 1]
  /\ fuel = [days |-> days, ops |-> ops]
  /\ last = [op |-> "adopt", arg |-> "", n |-> 0]

\* handleAdopt has created the pet
InitNew == Loaded(NewPet(1), NewPet(1), MaxDays, MaxOps, 0)

InitShop == Loaded(NewPet(1), NewPet(1), ShopDays, ShopOps, 0)

\* The pet after k days without any handler call, every Math.random() at 0.9,
\* each day run as: dayTimeout fires, refetch (the day effect re-arms the
\* timer, the evolution effect issues its update), the evolution update
\* completes, refetch, debounce.  timer is the pet progressDay closes over.
RECURSIVE Neglected(_)
Neglected(k) ==
  IF k = 0 THEN [stored |-> NewPet(1), timer |-> NewPet(1)]
  ELSE LET prev == Neglected(k - 1)
           fired == Merge(prev.stored, progressDay(prev.timer, 9, 9, 9, 9, k))
           evo == EvolutionUpdate({fired}, FALSE)
       IN [stored |-> IF evo = {} THEN fired
                      ELSE Merge(fired, (CHOOSE e \in evo : TRUE).data),
           timer |-> fired]

InitNeglect ==
  Loaded(Neglected(NeglectDays).stored, Neglected(NeglectDays).timer,
         MoreDays, MoreOps, NeglectDays)

\* p after the 'roll' trick was bought for it and the purchase refetched
Trained(p) == Merge(p, [coins |-> p.coins - 20 * S, tricks |-> <<"roll">>])

\* a new pet that has learned 'roll'; the day timer was armed before that
InitTrained ==
  Loaded(Trained(NewPet(1)), NewPet(1), TrickDays, TrickOps, 0)

\* a pet that learned 'roll' on its first day and was then left alone
InitTired ==
  Loaded(Trained(Neglected(NeglectDays).stored),
         Trained(Neglected(NeglectDays).timer), TrickDays, TrickOps, NeglectDays)

\* The page is loaded with a newly adopted pet (watched over a long life with
\* few handler calls, or over a short one with more) or with a neglected one.
Init == InitNew \/ InitShop \/ InitNeglect

\* ---- query refetch: the cache takes the stored pets, the page re-renders
Refetch ==
  /\ UNCHANGED memVars
  /\ UNCHANGED adopting
  /\ page = "care"
  /\ cache # store
  /\ cache' = store
  /\ RunEffects(store, isEvolving)
  /\ UNCHANGED <<store, expenses, evoTimer, performingTrick, page, clock, fuel, last>>

\* ---- dayTimeout fires: progressDay ---------------------------------------
DayTimerFire ==
  /\ UNCHANGED memVars
  /\ UNCHANGED adopting
  /\ page = "care"
  /\ timerPet # {}
  /\ fuel.days > 0
  /\ \E r \in DayRolls :
       LET p == ThePet(timerPet)
           updates == progressDay(p, r[1], r[2], r[3], r[4], clock + 1)
       IN /\ store' = PetUpdate(store, p.id, updates)
          /\ expenses' = IF p.has_insurance
               THEN ExpenseCreate(expenses, p.id, "insurance",
                                  getInsuranceCost({p}), "Daily insurance payment")
               ELSE expenses
  /\ timerPet' = {}
  /\ clock' = clock + 1
  /\ fuel' = [fuel EXCEPT !.days = @ - 1]
  /\ Called("day", "", 0)
  /\ UNCHANGED <<cache, petDied, deathStats, isEvolving, evoReq, evoTimer,
                 performingTrick, page>>

\* ---- handleCareAction(action, baseCost) ----------------------------------
\* CareEffect with play's Math.max(0, ...) forgotten
CareEffectUnclamped(action, p) ==
  CASE action = "feed" ->
         [hunger |-> Min(100 * S, p.hunger + 30 * S),
          energy |-> Min(100 * S, p.energy + 10 * S)]
    [] action = "play" ->
         [happiness |-> Min(100 * S, p.happiness + 25 * S),
          energy |-> p.energy - 10 * S]
    [] action = "rest" ->
         [energy |-> Min(100 * S, p.energy + 40 * S),
          happiness |-> Min(100 * S, p.happiness + 5 * S)]
    [] action = "clean" ->
         [hygiene |-> Min(100 * S, p.hygiene + 35 * S),
          happiness |-> Min(100 * S, p.happiness + 5 * S)]
    [] action = "health" ->
         [health |-> Min(100 * S, p.health + 30 * S)]

\* the stat fields a care action writes, from the rendered pet
CareEffect(action, p) ==
  CASE action = "feed" ->
         [hunger |-> Min(100 * S, p.hunger + 30 * S),
          energy |-> Min(100 * S, p.energy + 10 * S)]
    [] action = "play" ->
         [happiness |-> Min(100 * S, p.happiness + 25 * S),
          energy |-> Max(0, p.energy - 10 * S)]
    [] action = "rest" ->
         [energy |-> Min(100 * S, p.energy + 40 * S),
          happiness |-> Min(100 * S, p.happiness + 5 * S)]
    [] action = "clean" ->
         [hygiene |-> Min(100 * S, p.hygiene + 35 * S),
          happiness |-> Min(100 * S, p.happiness + 5 * S)]
    [] action = "health" ->
         [health |-> Min(100 * S, p.health + 30 * S)]

CareDescription(action) ==
  CASE action = "feed" -> "Fed pet" [] action = "play" -> "Played with pet"
    [] action = "rest" -> "Pet rest time" [] action = "clean" -> "Cleaned pet"
    [] action = "health" -> "Health checkup"

\* the updates object of handleCareAction
CareUpdates(action, p, cost) ==
  LET newAchievements ==
        IF action = "feed" /\ ~Includes(p.achievements, "first_feed")
          THEN Append(p.achievements, "first_feed") ELSE p.achievements
  IN [coins |-> p.coins - cost, achievements |-> newAchievements]
       @@ CareEffect(action, p)

\* CareRejected without the coins test
CareRejectedNoCoinTest(c, cost) == c = {}

\* the guard of handleCareAction: if (!pet || pet.coins < cost) return
CareRejected(c, cost) == c = {} \/ ThePet(c).coins < cost

handleCareAction(action) ==
  /\ UNCHANGED memVars
  /\ UNCHANGED adopting
  /\ LiveScreen
  /\ UseOp
  /\ Called("care", action, ThePet(cache).coins)
  /\ LET cost == CareCost(action, cache)
         p == ThePet(cache)
     IN IF CareRejected(cache, cost)
          THEN UNCHANGED <<store, expenses>>
          ELSE /\ expenses' = IF cost > 0
                    THEN ExpenseCreate(expenses, p.id, action, cost,
                                       CareDescription(action))
                    ELSE expenses
               /\ store' = PetUpdate(store, p.id, CareUpdates(action, p, cost))
  /\ UNCHANGED <<cache, timerPet, petDied, deathStats, isEvolving, evoReq,
                 evoTimer, performingTrick, page, clock>>

\* ---- handleGameComplete(reward) ------------------------------------------
\* GameUpdates granting experience with the coins
GameUpdatesWithExperience(p, reward) ==
  [coins |-> p.coins + reward * S, achievements |-> p.achievements,
   experience |-> p.experience + 1]

GameUpdates(p, reward) ==
  LET newCoins == p.coins + reward * S
  IN [coins |-> newCoins,
      achievements |-> IF newCoins >= 200 * S /\ ~Includes(p.achievements, "wealthy")
                         THEN Append(p.achievements, "wealthy")
                         ELSE p.achievements]

handleGameComplete(reward) ==
  /\ UNCHANGED <<memorials, memorialModal>>
  /\ activeGame' = ""
  /\ UNCHANGED adopting
  /\ LiveScreen
  /\ UseOp
  /\ Called("game", "", reward)
  /\ store' = PetUpdate(store, ThePet(cache).id, GameUpdates(ThePet(cache), reward))
  /\ UNCHANGED <<expenses, cache, timerPet, petDied, deathStats, isEvolving,
                 evoReq, evoTimer, performingTrick, page, clock>>

\* ---- handleBuyInsurance ---------------------------------------------------
InsuranceFee == 15

InsuranceUpdates(p) ==
  [has_insurance |-> TRUE, coins |-> p.coins - InsuranceFee * S,
   achievements |-> Append(p.achievements, "insured")]

handleBuyInsurance ==
  /\ UNCHANGED memVars
  /\ UNCHANGED adopting
  /\ LiveScreen
  /\ UseOp
  /\ Called("insurance", "", 0)
  /\ LET p == ThePet(cache)
     IN IF p.coins < InsuranceFee * S
          THEN UNCHANGED <<store, expenses>>
          ELSE /\ expenses' = ExpenseCreate(expenses, p.id, "insurance",
                                 InsuranceFee * S, "Insurance activation fee")
               /\ store' = PetUpdate(store, p.id, InsuranceUpdates(p))
  /\ UNCHANGED <<cache, timerPet, petDied, deathStats, isEvolving, evoReq,
                 evoTimer, performingTrick, page, clock>>

\* ---- Tricks modal: Learn New Tricks ---------------------------------------
TrickIds == {"roll", "dead", "dance", "fireball"}
TrickCost(t) ==
  CASE t = "roll" -> 20 [] t = "dead" -> 30 [] t = "dance" -> 50
    [] t = "fireball" -> 100

\* the button is rendered only while !trick.unlocked
BuyTrick(t) ==
  /\ UNCHANGED memVars
  /\ UNCHANGED adopting
  /\ LiveScreen
  /\ ~Includes(ThePet(cache).tricks, t)
  /\ UseOp
  /\ Called("trick", t, 0)
  /\ LET p == ThePet(cache)
     IN IF p.coins >= TrickCost(t) * S
          THEN store' = PetUpdate(store, p.id,
                   [coins |-> p.coins - TrickCost(t) * S,
                    tricks |-> Append(p.tricks, t)])
          ELSE UNCHANGED store
  /\ UNCHANGED <<expenses, cache, timerPet, petDied, deathStats, isEvolving,
                 evoReq, evoTimer, performingTrick, page, clock>>

\* ---- Toy Shop modal -------------------------------------------------------
ToyNames == {"Ball", "Squeaky Toy", "Magic Wand", "Golden Crown"}
ToyCost(n) ==
  CASE n = "Ball" -> 10 [] n = "Squeaky Toy" -> 20 [] n = "Magic Wand" -> 40
    [] n = "Golden Crown" -> 100
ToyHappiness(n) ==
  CASE n = "Ball" -> 5 [] n = "Squeaky Toy" -> 10 [] n = "Magic Wand" -> 15
    [] n = "Golden Crown" -> 25
\* owned: pet.toys?.includes(key)
ToyOwnedKey(n) ==
  CASE n = "Ball" -> "ball" [] n = "Squeaky Toy" -> "squeaky"
    [] n = "Magic Wand" -> "wand" [] n = "Golden Crown" -> "crown"
\* toy.name.toLowerCase().replace(' ', '')
ToyStoredId(n) ==
  CASE n = "Ball" -> "ball" [] n = "Squeaky Toy" -> "squeakytoy"
    [] n = "Magic Wand" -> "magicwand" [] n = "Golden Crown" -> "goldencrown"

BuyToy(n) ==
  /\ UNCHANGED memVars
  /\ UNCHANGED adopting
  /\ LiveScreen
  /\ ~Includes(ThePet(cache).toys, ToyOwnedKey(n))
  /\ UseOp
  /\ Called("toy", n, 0)
  /\ LET p == ThePet(cache)
     IN IF p.coins >= ToyCost(n) * S
          THEN store' = PetUpdate(store, p.id,
                   [coins |-> p.coins - ToyCost(n) * S,
                    toys |-> Append(p.toys, ToyStoredId(n)),
                    happiness |-> Min(100 * S, p.happiness + ToyHappiness(n) * S)])
          ELSE UNCHANGED store
  /\ UNCHANGED <<expenses, cache, timerPet, petDied, deathStats, isEvolving,
                 evoReq, evoTimer, performingTrick, page, clock>>

\* ---- onPerformTrick / Quick Perform ---------------------------------------
\* TrickUpdates without the experience gain
TrickUpdatesNoExperience(p) ==
  [happiness |-> Min(100 * S, p.happiness + 15 * S),
   energy |-> Max(0, p.energy - 10 * S)]

TrickUpdates(p) ==
  [happiness |-> Min(100 * S, p.happiness + 15 * S),
   energy |-> Max(0, p.energy - 10 * S),
   experience |-> p.experience + 1]

PerformTrick(t) ==
  /\ UNCHANGED memVars
  /\ UNCHANGED adopting
  /\ LiveScreen
  /\ Includes(ThePet(cache).tricks, t)
  /\ UseOp
  /\ Called("perform", t, 0)
  /\ LET p == ThePet(cache)
     IN IF p.energy >= 10 * S /\ performingTrick = ""
          THEN /\ performingTrick' = t
               /\ store' = PetUpdate(store, p.id, TrickUpdates(p))
          ELSE UNCHANGED <<store, performingTrick>>
  /\ UNCHANGED <<expenses, cache, timerPet, petDied, deathStats, isEvolving,
                 evoReq, evoTimer, page, clock>>

\* setTimeout(() => setPerformingTrick(null), 2000)
TrickTimeout ==
  /\ UNCHANGED memVars
  /\ UNCHANGED adopting
  /\ page = "care"
  /\ performingTrick # ""
  /\ performingTrick' = ""
  /\ UNCHANGED <<store, expenses, cache, timerPet, petDied, deathStats,
                 isEvolving, evoReq, evoTimer, page, clock, fuel, last>>

\* ---- the evolution update completes ---------------------------------------
\* onSuccess arms the 1 s debounce; the update of a pet that is gone fails and
\* onError clears isEvolving at once
EvolutionComplete ==
  /\ UNCHANGED memVars
  /\ \E req \in evoReq :
    /\ evoReq' = evoReq \ {req}
    /\ IF \E p \in store : p.id = req.id
         THEN /\ store' = PetUpdate(store, req.id, req.data)
              /\ evoTimer' = (evoTimer \/ page = "care")
              /\ UNCHANGED <<isEvolving, timerPet, petDied, deathStats>>
         ELSE /\ UNCHANGED <<store, evoTimer, timerPet, petDied, deathStats>>
              /\ isEvolving' = FALSE
    /\ UNCHANGED <<expenses, cache, performingTrick, page, clock, adopting, fuel,
                   last>>

\* the debounce timeout: setIsEvolving(false), and the evolution effect re-runs
DebounceExpire ==
  /\ UNCHANGED memVars
  /\ UNCHANGED adopting
  /\ page = "care"
  /\ evoTimer
  /\ evoTimer' = FALSE
  /\ RunEffects(cache, FALSE)
  /\ UNCHANGED <<store, expenses, cache, performingTrick, page, clock, fuel, last>>

\* ---- deleting the pet ------------------------------------------------------
\* a page that left its day timer armed when it unmounted
LeavePageKeepsTimer ==
  /\ page' = "adopt"
  /\ timerPet' = timerPet

\* leaving the PetCare page: the effects' cleanups clear the timers
LeavePage ==
  /\ page' = "adopt"
  /\ timerPet' = {}

\* handleResetPet (live screen, confirmed)
handleResetPet ==
  /\ UNCHANGED memVars
  /\ UNCHANGED adopting
  /\ LiveScreen
  /\ store' = {p \in store : p.id # ThePet(cache).id}
  /\ LeavePage
  /\ Called("reset", "", 0)
  /\ UNCHANGED <<expenses, cache, petDied, deathStats, isEvolving, evoReq,
                 evoTimer, performingTrick, clock, fuel>>

\* handleAdoptNewPet (death screen)
handleAdoptNewPet ==
  /\ UNCHANGED memVars
  /\ UNCHANGED adopting
  /\ DeathScreen
  /\ store' = {p \in store : p.id # ThePet(cache).id}
  /\ LeavePage
  /\ Called("adoptnew", "", 0)
  /\ UNCHANGED <<expenses, cache, petDied, deathStats, isEvolving, evoReq,
                 evoTimer, performingTrick, clock, fuel>>

\* ---- PetAdopt page: handleAdopt -------------------------------------------
\* Expense.filter({ pet_id })
ExpenseFilter(tbl, pid) ==
  [e \in {x \in BagToSet(tbl) : x.pet_id = pid} |-> CopiesIn(e, tbl)]

\* Expense.delete(expense.id)
ExpenseDelete(tbl, e) == tbl (-) SetToBag({e})

\* PetCare mounts and loads the stored pets: fresh component state, then the
\* effects of its first render with data
MountPetCare(stored) ==
  /\ page' = "care"
  /\ cache' = stored
  /\ timerPet' = IF stored = {} THEN {} ELSE {ThePet(stored)}
  /\ petDied' = DeathObserved(stored, FALSE)
  /\ deathStats' = IF DeathObserved(stored, FALSE)
                     THEN {DeathStatsOf(ThePet(stored))} ELSE {}
  /\ isEvolving' = (EvolutionUpdate(stored, FALSE) # {})
  /\ evoReq' = evoReq \cup EvolutionUpdate(stored, FALSE)
  /\ evoTimer' = FALSE
  /\ performingTrick' = ""
  /\ memorialModal' = ClosedModal
  /\ activeGame' = ""

\* AdoptCaught going on to Pet.create after the error
AdoptCaughtContinues(a) == [a EXCEPT !.pc = "pets", !.pets = {}, !.exps = EmptyBag]

\* catch (error): the rest of the try block is skipped
AdoptCaught(a) == [a EXCEPT !.pc = "idle", !.pets = {}, !.exps = EmptyBag]

\* the Adopt link of the layout, followed while a pet is shown
NavigateToAdopt ==
  /\ UNCHANGED memVars
  /\ page = "care"
  /\ cache # {}
  /\ LeavePage
  /\ UNCHANGED <<store, expenses, cache, petDied, deathStats, isEvolving, evoReq,
                 evoTimer, performingTrick, clock, adopting, fuel, last>>

\* handleAdopt is called (the button is disabled while isCreating): it
\* requests Pet.list()
handleAdopt ==
  /\ UNCHANGED memVars
  /\ page = "adopt"
  /\ adopting.pc = "idle"
  /\ UseOp
  /\ Called("adopt", "", 0)
  /\ adopting' = [adopting EXCEPT !.pc = "list"]
  /\ UNCHANGED <<store, expenses, cache, timerPet, petDied, deathStats, isEvolving,
                 evoReq, evoTimer, performingTrick, page, clock>>

\* existingPets = await Pet.list()
AdoptListed ==
  /\ UNCHANGED memVars
  /\ adopting.pc = "list"
  /\ adopting' = [adopting EXCEPT !.pc = "pets", !.pets = store]
  /\ UNCHANGED <<store, expenses, cache, timerPet, petDied, deathStats, isEvolving,
                 evoReq, evoTimer, performingTrick, page, clock, fuel, last>>

\* expenses = await Expense.filter({ pet_id: pet.id }) for the next listed pet
AdoptFilterExpenses ==
  /\ UNCHANGED memVars
  /\ adopting.pc = "pets"
  /\ adopting.pets # {}
  /\ adopting' = [adopting EXCEPT !.pc = "exps",
                     !.exps = ExpenseFilter(expenses, ThePet(adopting.pets).id)]
  /\ UNCHANGED <<store, expenses, cache, timerPet, petDied, deathStats, isEvolving,
                 evoReq, evoTimer, performingTrick, page, clock, fuel, last>>

\* await Expense.delete(expense.id)
AdoptDeleteExpense ==
  /\ UNCHANGED memVars
  /\ adopting.pc = "exps"
  /\ \E e \in BagToSet(adopting.exps) :
       /\ expenses' = ExpenseDelete(expenses, e)
       /\ adopting' = [adopting EXCEPT !.exps = ExpenseDelete(@, e)]
  /\ UNCHANGED <<store, cache, timerPet, petDied, deathStats, isEvolving,
                 evoReq, evoTimer, performingTrick, page, clock, fuel, last>>

\* await Pet.delete(pet.id), after the pet's expenses
AdoptDeletePet ==
  /\ UNCHANGED memVars
  /\ adopting.pc = "exps"
  /\ adopting.exps = EmptyBag
  /\ store' = {p \in store : p.id # ThePet(adopting.pets).id}
  /\ adopting' = [adopting EXCEPT !.pc = "pets",
                     !.pets = @ \ {ThePet(adopting.pets)}]
  /\ UNCHANGED <<expenses, cache, timerPet, petDied, deathStats, isEvolving,
                 evoReq, evoTimer, performingTrick, page, clock, fuel, last>>

\* await Pet.create({...}); navigate(createPageUrl('PetCare'))
AdoptCreatePet ==
  /\ UNCHANGED memorials
  /\ adopting.pc = "pets"
  /\ adopting.pets = {}
  /\ store' = store \cup {[NewPet(adopting.nextId) EXCEPT !.last_fed = clock]}
  /\ adopting' = [adopting EXCEPT !.pc = "idle", !.nextId = @ + 1]
  /\ MountPetCare(store')
  /\ UNCHANGED <<expenses, clock, fuel, last>>

\* the awaited request of the current position fails: the store is unchanged
AdoptFails ==
  /\ UNCHANGED memVars
  /\ adopting.pc \in {"list", "pets", "exps"}
  /\ adopting' = AdoptCaught(adopting)
  /\ UNCHANGED <<store, expenses, cache, timerPet, petDied, deathStats, isEvolving,
                 evoReq, evoTimer, performingTrick, page, clock, fuel, last>>

Next ==
  \/ Refetch
  \/ DayTimerFire
  \/ \E a \in ActionIds : handleCareAction(a)
  \/ \E r \in Rewards : handleGameComplete(r)
  \/ handleBuyInsurance
  \/ \E t \in TrickChoices : BuyTrick(t)
  \/ \E n \in ToyChoices : BuyToy(n)
  \/ \E t \in TrickIds : PerformTrick(t)
  \/ TrickTimeout
  \/ EvolutionComplete
  \/ DebounceExpire
  \/ handleResetPet
  \/ handleAdoptNewPet

Spec == Init /\ [][Next]_vars

\* ---- trick performances: a pet that has learned a trick --------------------
InitTricks == InitTrained \/ InitTired

NextTricks ==
  \/ Refetch
  \/ DayTimerFire
  \/ \E a \in ActionIds : handleCareAction(a)
  \/ \E t \in TrickChoices : BuyTrick(t)
  \/ \E t \in TrickIds : PerformTrick(t)
  \/ TrickTimeout

SpecTricks == InitTricks /\ [][NextTricks]_vars

\* ---- Pet.update fails ------------------------------------------------------
\* updatePetMutation.mutate rejects: the store keeps the pet as it is and
\* onSuccess (invalidateQueries) does not run.  Expense.create is a request
\* of its own and is carried out.

\* dayTimeout fires, progressDay runs and its Pet.update fails
DayUpdateFails ==
  /\ UNCHANGED memVars
  /\ page = "care"
  /\ timerPet # {}
  /\ fuel.days > 0
  /\ LET p == ThePet(timerPet)
     IN expenses' = IF p.has_insurance
          THEN ExpenseCreate(expenses, p.id, "insurance",
                             getInsuranceCost({p}), "Daily insurance payment")
          ELSE expenses
  /\ timerPet' = {}
  /\ clock' = clock + 1
  /\ fuel' = [fuel EXCEPT !.days = @ - 1]
  /\ Called("dayfail", "", 0)
  /\ UNCHANGED <<store, cache, petDied, deathStats, isEvolving, evoReq, evoTimer,
                 performingTrick, page, adopting>>

\* handleCareAction whose Pet.update fails
CareUpdateFails(action) ==
  /\ UNCHANGED memVars
  /\ LiveScreen
  /\ UseOp
  /\ Called("carefail", action, ThePet(cache).coins)
  /\ LET cost == CareCost(action, cache)
         p == ThePet(cache)
     IN /\ ~CareRejected(cache, cost)
        /\ expenses' = IF cost > 0
              THEN ExpenseCreate(expenses, p.id, action, cost, CareDescription(action))
              ELSE expenses
  /\ UNCHANGED <<store, cache, timerPet, petDied, deathStats, isEvolving, evoReq,
                 evoTimer, performingTrick, page, clock, adopting>>

\* handleBuyInsurance whose Pet.update fails, after the awaited Expense.create
InsuranceUpdateFails ==
  /\ UNCHANGED memVars
  /\ LiveScreen
  /\ UseOp
  /\ Called("insurancefail", "", 0)
  /\ ThePet(cache).coins >= InsuranceFee * S
  /\ expenses' = ExpenseCreate(expenses, ThePet(cache).id, "insurance",
                               InsuranceFee * S, "Insurance activation fee")
  /\ UNCHANGED <<store, cache, timerPet, petDied, deathStats, isEvolving, evoReq,
                 evoTimer, performingTrick, page, clock, adopting>>

InitFail == Loaded(NewPet(1), NewPet(1), FailDays, FailOps, 0)

NextFail ==
  \/ Refetch
  \/ DayTimerFire
  \/ DayUpdateFails
  \/ \E a \in ActionIds : handleCareAction(a)
  \/ \E a \in ActionIds : CareUpdateFails(a)
  \/ handleBuyInsurance
  \/ InsuranceUpdateFails

\* a due refetch is carried out and a pending dayTimeout fires
SpecFail ==
  /\ InitFail
  /\ [][NextFail]_vars
  /\ WF_vars(Refetch)
  /\ WF_vars(DayTimerFire \/ DayUpdateFails)

\* ---- absence: the PetCare page is closed and opened again ------------------
\* The page is left with no request in flight (unmount: the effect cleanups
\* clear the timers) and opened again k day durations later: it mounts, loads
\* the stored pet and the day effect computes
\* timeUntilNextDay = dayDuration - (timeSinceLastUpdate % dayDuration).
Reopen(k) ==
  /\ UNCHANGED memorials
  /\ page = "care"
  /\ cache # {}
  /\ evoReq = {}
  /\ UseOp
  /\ Called("reopen", "", k)
  /\ clock' = clock + k
  /\ MountPetCare(store)
  /\ UNCHANGED <<store, expenses, adopting>>

InitAway == Loaded(NewPet(1), NewPet(1), AwayDays, AwayOps, 0)

NextAway ==
  \/ Refetch
  \/ DayTimerFire
  \/ EvolutionComplete
  \/ DebounceExpire
  \/ \E k \in AwayChoices : Reopen(k)

SpecAway == InitAway /\ [][NextAway]_vars

\* ---- adoption: the PetCare and PetAdopt pages with no day passing ----------
InitAdopt == Loaded(NewPet(1), NewPet(1), 0, AdoptOps, 0)

NextAdopt ==
  \/ Refetch
  \/ \E a \in ActionIds : handleCareAction(a)
  \/ handleResetPet
  \/ NavigateToAdopt
  \/ handleAdopt
  \/ AdoptListed
  \/ AdoptFilterExpenses
  \/ AdoptDeleteExpense
  \/ AdoptDeletePet
  \/ AdoptCreatePet
  \/ AdoptFails

SpecAdopt == InitAdopt /\ [][NextAdopt]_vars

\* ---- a newly adopted pet left alone: only the timers run --------------------
NextDays ==
  \/ Refetch
  \/ DayTimerFire
  \/ EvolutionComplete
  \/ DebounceExpire

SpecDays == InitNew /\ [][NextDays]_vars

\* ---- prices: care actions and insurance over the days -----------------------
InitCosts ==
  \/ Loaded(NewPet(1), NewPet(1), CostDays, CostOps, 0)
  \/ Loaded(Neglected(NeglectDays).stored, Neglected(NeglectDays).timer,
            CostDays, CostOps, NeglectDays)

NextCosts ==
  \/ Refetch
  \/ DayTimerFire
  \/ \E a \in ActionIds : handleCareAction(a)
  \/ handleBuyInsurance

SpecCosts == InitCosts /\ [][NextCosts]_vars

\* ---- the day timer over unmounts and adoptions -----------------------------
InitTimer == Loaded(NewPet(1), NewPet(1), TimerDays, TimerOps, 0)

NextTimer ==
  \/ Refetch
  \/ DayTimerFire
  \/ \E a \in ActionIds : handleCareAction(a)
  \/ \E k \in AwayChoices : Reopen(k)
  \/ handleResetPet
  \/ NavigateToAdopt
  \/ handleAdopt
  \/ AdoptListed
  \/ AdoptFilterExpenses
  \/ AdoptDeleteExpense
  \/ AdoptDeletePet
  \/ AdoptCreatePet

SpecTimer == InitTimer /\ [][NextTimer]_vars

\* ---- progressDay's health rule: grown pets left alone ----------------------
\* a fully grown pet of the given stats and health, insured or not
GrownPet(stats, health, insured) ==
  Merge(NewPet(1),
        [stage |-> "grown", days_alive |-> 8, experience |-> 8, last_fed |-> 8,
         hunger |-> stats[1] * S, happiness |-> stats[2] * S,
         hygiene |-> stats[3] * S, energy |-> stats[4] * S,
         health |-> health * S, has_insurance |-> insured,
         achievements |-> IF insured THEN <<"hatchling", "fully_grown", "insured">>
                          ELSE <<"hatchling", "fully_grown">>])

InitHealth ==
  \E stats \in StatPatterns, health \in HealthLevels, insured \in BOOLEAN :
    Loaded(GrownPet(stats, health, insured), GrownPet(stats, health, insured),
           HealthDays, 0, 8)

NextHealth ==
  \/ Refetch
  \/ DayTimerFire

SpecHealth == InitHealth /\ [][NextHealth]_vars

\* ---- chores: the mini-games -------------------------------------------------
GameIds == {"trash", "window", "wire"}

\* ChoresMenu onSelectChore: setShowChores(false); setActiveGame(game)
OpenGame(game) ==
  /\ LiveScreen
  /\ activeGame = ""
  /\ activeGame' = game
  /\ UNCHANGED <<store, expenses, cache, timerPet, petDied, deathStats, isEvolving,
                 evoReq, evoTimer, performingTrick, page, clock, memorials,
                 memorialModal, adopting, fuel, last>>

\* onClose of the game that is shown: setActiveGame(null)
CloseGame ==
  /\ LiveScreen
  /\ activeGame # ""
  /\ activeGame' = ""
  /\ UNCHANGED <<store, expenses, cache, timerPet, petDied, deathStats, isEvolving,
                 evoReq, evoTimer, performingTrick, page, clock, memorials,
                 memorialModal, adopting, fuel, last>>

\* TrashGame handleFinish: 5 + Math.floor(Math.random() * 6)
TrashReward(draw) == 5 + draw

\* Math.round of x / 100
RoundHundredths(x) == (x + 50) \div 100

\* WindowGame handleFinish: Math.round(cleanPercentage * 0.25)
WindowReward(cleanPercentage) == RoundHundredths(cleanPercentage * 25)

\* WireGame handleFinish: Math.max(baseReward - penalty, 10)
WireReward(mistakes) == Max(30 - mistakes * 5, 10)

\* Collect Reward of the game that is shown (game over): handleFinish calls
\* onComplete(reward)
FinishGame ==
  \/ /\ activeGame = "trash"
     /\ \E draw \in TrashDraws : handleGameComplete(TrashReward(draw))
  \/ /\ activeGame = "window"
     /\ \E pct \in WindowPercents : handleGameComplete(WindowReward(pct))
  \/ /\ activeGame = "wire"
     /\ \E mistakes \in WireMistakes : handleGameComplete(WireReward(mistakes))

InitGames == Loaded(NewPet(1), NewPet(1), GameDays, GameOps, 0)

\* the game covers the page: care actions are taken while no game is shown
NextGames ==
  \/ Refetch
  \/ DayTimerFire
  \/ \E a \in ActionIds : activeGame = "" /\ handleCareAction(a)
  \/ \E game \in GameIds : OpenGame(game)
  \/ CloseGame
  \/ FinishGame

SpecGames == InitGames /\ [][NextGames]_vars

\* ---- the death screen: memorial ---------------------------------------------
MemorialTypes == {"basic", "golden", "legendary"}

\* MemorialCost with every tier at the price of the basic one
MemorialCostFlat(type) == 50

\* const costs = { basic: 50, golden: 75, legendary: 100 }, and the cost of
\* the Memorial Style options
MemorialCost(type) ==
  CASE type = "basic" -> 50 [] type = "golden" -> 75 [] type = "legendary" -> 100

\* memorialData: pet stands for the pet_name, species and color_variant it
\* copies from the pet
MemorialData(p, stats, type) ==
  [pet |-> p.id, days_lived |-> stats.daysLived, stage_reached |-> p.stage,
   memorial_type |-> type]

TheStats == CHOOSE s \in deathStats : TRUE

\* handleBuyMemorial: the Buy Grave Memorial button of the death screen
handleBuyMemorial ==
  /\ DeathScreen
  /\ ~memorialModal.show
  /\ memorialModal' = IF TheStats.coins < 50 * S THEN memorialModal
                      ELSE [memorialModal EXCEPT !.show = TRUE]
  /\ memorialModal' # memorialModal
  /\ UNCHANGED <<store, expenses, cache, timerPet, petDied, deathStats, isEvolving,
                 evoReq, evoTimer, performingTrick, page, clock, memorials,
                 activeGame, adopting, fuel, last>>

\* a Memorial Style button: disabled while deathStats.coins < option.cost
SetMemorialType(type) ==
  /\ DeathScreen
  /\ memorialModal.show
  /\ TheStats.coins >= MemorialCost(type) * S
  /\ memorialModal.type # type
  /\ memorialModal' = [memorialModal EXCEPT !.type = type]
  /\ UNCHANGED <<store, expenses, cache, timerPet, petDied, deathStats, isEvolving,
                 evoReq, evoTimer, performingTrick, page, clock, memorials,
                 activeGame, adopting, fuel, last>>

\* the Cancel button: disabled while isCreatingMemorial
CancelMemorial ==
  /\ DeathScreen
  /\ memorialModal.show
  /\ memorialModal.pc = "idle"
  /\ memorialModal' = [memorialModal EXCEPT !.show = FALSE]
  /\ UNCHANGED <<store, expenses, cache, timerPet, petDied, deathStats, isEvolving,
                 evoReq, evoTimer, performingTrick, page, clock, memorials,
                 activeGame, adopting, fuel, last>>

\* the guards of handleCreateMemorial: !pet || !deathStats, and
\* deathStats.coins < cost
MemorialRefused(c, stats, type) ==
  \/ c = {} \/ stats = {}
  \/ (CHOOSE s \in stats : TRUE).coins < MemorialCost(type) * S

\* handleCreateMemorial is called (the Create button is disabled while
\* isCreatingMemorial): it builds memorialData and requests Memorial.create
handleCreateMemorial ==
  /\ DeathScreen
  /\ memorialModal.show
  /\ memorialModal.pc = "idle"
  /\ UseOp
  /\ Called("memorial", memorialModal.type, TheStats.coins)
  /\ memorialModal' =
       IF MemorialRefused(cache, deathStats, memorialModal.type) THEN memorialModal
       ELSE [memorialModal EXCEPT !.pc = "create",
               !.data = {MemorialData(ThePet(cache), TheStats, memorialModal.type)}]
  /\ UNCHANGED <<store, expenses, cache, timerPet, petDied, deathStats, isEvolving,
                 evoReq, evoTimer, performingTrick, page, clock, memorials,
                 activeGame, adopting>>

\* await Memorial.create(memorialData) succeeds; Pet.delete is requested
MemorialCreated ==
  /\ memorialModal.pc = "create"
  /\ memorials' = memorials (+) SetToBag(memorialModal.data)
  /\ memorialModal' = [memorialModal EXCEPT !.pc = "delete"]
  /\ UNCHANGED <<store, expenses, cache, timerPet, petDied, deathStats, isEvolving,
                 evoReq, evoTimer, performingTrick, page, clock, activeGame,
                 adopting, fuel, last>>

\* await Pet.delete(pet.id) succeeds; navigate(createPageUrl('Graveyard'))
MemorialPetDeleted ==
  /\ memorialModal.pc = "delete"
  /\ store' = {p \in store : \A d \in memorialModal.data : p.id # d.pet}
  /\ page' = "graveyard"
  /\ timerPet' = {}
  /\ memorialModal' = [memorialModal EXCEPT !.pc = "idle", !.data = {}]
  /\ UNCHANGED <<expenses, cache, petDied, deathStats, isEvolving, evoReq,
                 evoTimer, performingTrick, clock, memorials, activeGame,
                 adopting, fuel, last>>

\* the awaited request rejects: catch (error), setIsCreatingMemorial(false);
\* the modal stays open
MemorialFails ==
  /\ memorialModal.pc \in {"create", "delete"}
  /\ memorialModal' = [memorialModal EXCEPT !.pc = "idle", !.data = {}]
  /\ UNCHANGED <<store, expenses, cache, timerPet, petDied, deathStats, isEvolving,
                 evoReq, evoTimer, performingTrick, page, clock, memorials,
                 activeGame, adopting, fuel, last>>

InitMemorial ==
  Loaded(Neglected(NeglectDays).stored, Neglected(NeglectDays).timer,
         MemorialDays, MemorialOps, NeglectDays)

NextMemorial ==
  \/ Refetch
  \/ DayTimerFire
  \/ \E a \in ActionIds : handleCareAction(a)
  \/ \E r \in Rewards : handleGameComplete(r)
  \/ handleAdoptNewPet
  \/ handleBuyMemorial
  \/ \E type \in MemorialTypes : SetMemorialType(type)
  \/ CancelMemorial
  \/ handleCreateMemorial
  \/ MemorialCreated
  \/ MemorialPetDeleted
  \/ MemorialFails

SpecMemorial == InitMemorial /\ [][NextMemorial]_vars

\* ---- properties ------------------------------------------------------------
\* a step in which the dayTimeout fired and progressDay issued its update
DayAdvanced == last'.op = "day" /\ clock' # clock
\* a step in which handleCareAction ran
CareCalled == last'.op = "care" /\ fuel' # fuel

\* C1: every stored Pet has hunger, happiness, energy, hygiene and health in
\* [0, 100], and coins, experience and days_alive >= 0.
C1_StatsInRange ==
  \A p \in store :
    /\ \A f \in {"hunger", "happiness", "energy", "hygiene", "health"} :
         0 <= p[f] /\ p[f] <= 100 * S
    /\ p.coins >= 0
    /\ p.experience >= 0
    /\ p.days_alive >= 0

\* a play on an exhausted pet has been stored: its energy sits at the floor
C1_Witness ==
  /\ last.op = "care" /\ last.arg = "play"
  /\ \E p \in store : p.energy = 0 /\ p.coins < last.n /\ p.days_alive > 0

\* C2: once the stored pet's health is <= 0 and petDied is set, the stored
\* pet is never updated again: a step leaves it as it is or deletes it.
C2_NoUpdateAfterDeath ==
  [][(petDied /\ store # {} /\ ThePet(store).health <= 0)
       => (store' = store \/ store' = {})]_vars

\* C3: a day-advance on a pet whose stored has_insurance is true, if it
\* changes the stored health, writes a health >= 20.
C3_InsuredDayKeepsFloor ==
  [][(DayAdvanced /\ store # {} /\ ThePet(store).has_insurance
        /\ ThePet(store').health # ThePet(store).health)
       => ThePet(store').health >= 20 * S]_vars

\* C4: a day-advance computes what it writes from the latest stored values:
\* the stored pet after it is progressDay applied to the stored pet before it.
C4_DayAdvanceFromStored ==
  [][(DayAdvanced /\ store # {})
       => \E r \in DayRolls :
            store' = PetUpdate(store, ThePet(store).id,
                       progressDay(ThePet(store), r[1], r[2], r[3], r[4], clock'))]_vars

\* C5: one evolution update per threshold crossing: no evolution update is
\* issued towards a stage the stored pet has already been given.
C5_OneUpdatePerCrossing ==
  [][\A req \in evoReq' \ evoReq :
       \A p \in store : p.id = req.id => p.stage # req.data.stage]_vars

\* C6: the stored stage moves only egg -> hatchling -> grown: every step
\* keeps it or advances it by exactly one stage.
StageRank(st) == CASE st = "egg" -> 0 [] st = "hatchling" -> 1 [] st = "grown" -> 2

C7_ExperienceResetOnce ==
  [][\A p \in store : \A q \in store' :
       p.id = q.id =>
         /\ q.experience < p.experience
              => (p.stage = "egg" /\ q.stage = "hatchling" /\ q.experience = 0)
         /\ (p.stage = "hatchling" /\ q.stage = "grown")
              => q.experience = p.experience]_vars

\* C8: handleCareAction called with coins below baseCost * costMultiplier
\* changes neither the stored pets nor the ledger.
C8_UnaffordableCareRejected ==
  [][(CareCalled /\ last'.n < BaseCost(last'.arg) * getCostMultiplier(cache))
       => (store' = store /\ expenses' = expenses)]_vars

\* a paid care action has been called on a pet that could not pay for it
C8_Witness ==
  /\ last.op = "care"
  /\ BaseCost(last.arg) > 0
  /\ last.n < BaseCost(last.arg) * S

\* C9: a care action that goes through deducts, and records as its Expense,
\* the price on its button: ceil(baseCost * costMultiplier).
C9_ChargedPriceIsShownPrice ==
  [][(CareCalled /\ store' # store)
       => LET price == actualCost(last'.arg, getCostMultiplier(cache))
          IN /\ ThePet(store').coins = ThePet(cache).coins - price
             /\ price > 0 =>
                  \E e \in BagToSet(expenses') :
                    /\ e.amount = price
                    /\ expenses' = expenses (+) SetToBag({e})]_vars

\* C10: every step that lowers a stored pet's coins adds exactly one Expense
\* of that pet, whose amount is the number of coins removed.
C10_EveryDeductionHasExpense ==
  [][\A p \in store : \A q \in store' :
       (p.id = q.id /\ q.coins < p.coins)
         => \E e \in BagToSet(expenses') :
              /\ e.pet_id = p.id
              /\ e.amount = p.coins - q.coins
              /\ expenses' = expenses (+) SetToBag({e})]_vars

\* a step in which onPerformTrick ran
TrickCalled == last'.op = "perform" /\ fuel' # fuel

\* C11: no Expense references a pet that is absent from the store: deleting a
\* pet deletes its expenses.
C11_NoOrphanExpenses ==
  \A e \in BagToSet(expenses) : \E p \in store : p.id = e.pet_id

\* C12: the store never holds more than one Pet, whichever request of
\* handleAdopt fails, and when handleAdopt has completed the pet it created
\* is the only one.
C12_AtMostOnePet ==
  /\ Cardinality(store) <= 1
  /\ (last.op = "adopt" /\ page = "care")
       => store = {NewPet(adopting.nextId - 1)}

\* handleAdopt has deleted the expenses of the pet that paid for them, then
\* failed: the old pet is still the only one
C12_Witness ==
  /\ last.op = "adopt" /\ page = "adopt" /\ adopting.pc = "idle"
  /\ expenses = EmptyBag
  /\ \E p \in store : p.id = 1 /\ p.coins < 50 * S

\* C13: the insurance activation fee is charged at most once per pet: the
\* ledger never holds two 'Insurance activation fee' records of one pet.
C13_ActivationFeeOnce ==
  \A e \in BagToSet(expenses) :
    e.description = "Insurance activation fee" => CopiesIn(e, expenses) <= 1

\* a sequence holds no element twice
NoDuplicates(seq) ==
  \A i, j \in 1..Len(seq) : seq[i] = seq[j] => i = j

\* C14: each trick and each toy is bought at most once: no identifier occurs
\* twice in the stored tricks or toys.
C14_ItemsBoughtOnce ==
  \A p \in store : NoDuplicates(p.tricks) /\ NoDuplicates(p.toys)

\* C15: tricks and toys are append-only: an identifier stored for a pet is
\* still stored for it after every step.
C15_ItemsAppendOnly ==
  [][\A p \in store : \A q \in store' :
       p.id = q.id =>
         /\ \A i \in 1..Len(p.tricks) : Includes(q.tricks, p.tricks[i])
         /\ \A i \in 1..Len(p.toys) : Includes(q.toys, p.toys[i])]_vars

\* C16: the stored achievements never hold a tag twice and never lose a tag.
C16_AchievementsUniqueAppendOnly ==
  [][\A p \in store : \A q \in store' :
       p.id = q.id =>
         /\ NoDuplicates(q.achievements)
         /\ \A i \in 1..Len(p.achievements) :
              Includes(q.achievements, p.achievements[i])]_vars

\* C17: a trick performance is accepted only if the displayed pet's energy is
\* >= 10 and no trick is in progress; accepted, it issues one update with
\* happiness = min(100, happiness + 15), energy = energy - 10 and
\* experience = experience + 1 and leaves coins alone; rejected, it issues
\* none.  performingTrick only ever goes from null to a trick and back.
C17_PerformTrickAccepted ==
  [][/\ TrickCalled =>
          LET p == ThePet(cache)
          IN IF p.energy >= 10 * S /\ performingTrick = ""
               THEN /\ store' = PetUpdate(store, p.id,
                                   [happiness |-> Min(100 * S, p.happiness + 15 * S),
                                    energy |-> p.energy - 10 * S,
                                    experience |-> p.experience + 1])
                    /\ ThePet(store').coins = ThePet(store).coins
                    /\ performingTrick' = last'.arg
               ELSE /\ store' = store
                    /\ performingTrick' = performingTrick
     /\ performingTrick' # performingTrick
          => (performingTrick = "" \/ performingTrick' = "")]_vars

\* a trick has been accepted and is in progress
C17_Witness ==
  /\ last.op = "perform"
  /\ performingTrick = last.arg
  /\ \E p \in store : p.experience = p.days_alive + 1 /\ p.energy = 40 * S

\* C18: one day-advance per elapsed day boundary: when k >= 1 full day
\* durations have elapsed since the stored last_fed as the day timer fires
\* for the first time after the scheduler was activated, days_alive
\* increases by k.
C18_CatchUpElapsedDays ==
  [][(DayAdvanced /\ store # {} /\ clock - ThePet(store).last_fed >= 1)
       => ThePet(store').days_alive
            = ThePet(store).days_alive + (clock - ThePet(store).last_fed)]_vars

\* C19: a failed day-advance update does not stall day progression: after
\* it, a new day timer is eventually pending.
C19_DayTimerRearmedAfterFailure ==
  (last.op = "dayfail") ~> (timerPet # {})

\* C20: a failed Pet.update leaves no partial effect: a step that leaves the
\* stored pets as they are leaves the ledger as it is.
C20_FailedUpdateNoExpense ==
  [][store' = store => expenses' = expenses]_vars

\* C21: at most one Memorial record is ever created for a deceased pet, also
\* when Pet.delete fails after Memorial.create has succeeded and Create is
\* pressed again.
C21_OneMemorialPerPet ==
  \A m1, m2 \in BagToSet(memorials) :
    m1.pet = m2.pet => (m1 = m2 /\ CopiesIn(m1, memorials) = 1)

\* C22: a Memorial of tier T is created only for a pet recorded as deceased
\* (petDied with its death snapshot, the displayed health <= 0) and only if
\* the coins of the snapshot are >= cost(T), basic 50, golden 75, legendary
\* 100; Memorial.create or Pet.delete is in flight only under that condition,
\* and Pet.delete only after the Memorial was created.
C22_MemorialOnlyIfAffordable ==
  [][/\ memorials' # memorials =>
          /\ petDied /\ deathStats # {}
          /\ \E m \in BagToSet(memorials') :
               /\ memorials' = memorials (+) SetToBag({m})
               /\ TheStats.coins >=
                    (CASE m.memorial_type = "basic" -> 50 * S
                       [] m.memorial_type = "golden" -> 75 * S
                       [] m.memorial_type = "legendary" -> 100 * S)
               /\ \E p \in cache : p.id = m.pet /\ p.health <= 0
     /\ memorialModal'.pc # "idle" =>
          /\ petDied' /\ deathStats' # {}
          /\ \A s \in deathStats' :
               s.coins >= (CASE memorialModal'.type = "basic" -> 50 * S
                             [] memorialModal'.type = "golden" -> 75 * S
                             [] memorialModal'.type = "legendary" -> 100 * S)
     /\ (store' # store /\ memorialModal.pc = "delete") =>
          \E m \in BagToSet(memorials) : \A p \in store \ store' : m.pet = p.id]_vars

\* a golden Memorial has been created from a snapshot that could pay for it
\* but not for a legendary one, and the pet is deleted
C22_Witness ==
  /\ page = "graveyard" /\ store = {}
  /\ \E m \in BagToSet(memorials) : m.memorial_type = "golden"
  /\ \E s \in deathStats : s.coins = 80 * S

\* C23: a newly adopted pet to which only day-advances are applied is still
\* an egg after the first and the second one; after the third one it is an egg
\* with experience 3 only until the evolution check that follows has run and
\* its update is stored, and then a hatchling with experience 0.
C23_HatchesOnThirdDay ==
  \A p \in store :
    /\ p.days_alive <= 2 => (p.stage = "egg" /\ p.experience = p.days_alive)
    /\ p.days_alive = 3 =>
         \/ p.stage = "egg" /\ p.experience = 3 /\ (cache # store \/ evoReq # {})
         \/ p.stage = "hatchling" /\ p.experience = 0

\* the third day-advance and its evolution update are stored and displayed
C23_Witness ==
  /\ cache = store /\ evoReq = {}
  /\ \E p \in store : p.days_alive = 3 /\ p.stage = "hatchling" /\ p.experience = 0

\* C30: the experience reset at egg -> hatchling is durable: a day-advance on
\* a stored hatchling writes its stored experience + 1, so a pet that gains
\* experience only from day-advances is not grown before its eighth day.
C30_ResetIsDurable ==
  [][/\ (DayAdvanced /\ store # {} /\ ThePet(store).stage = "hatchling")
          => ThePet(store').experience = ThePet(store).experience + 1
     /\ \A p \in store' : p.stage = "grown" => p.days_alive >= 8]_vars

\* the prices of a pet of every age up to AgeMax
PricesByAge ==
  [d \in 0..AgeMax |->
     LET c == {[NewPet(1) EXCEPT !.days_alive = d]}
     IN [multiplier |-> getCostMultiplier(c),
         insurance |-> getInsuranceCost(c),
         care |-> [a \in ActionIds |-> CareCost(a, c)]]]

\* C24: the cost multiplier, the cost of every care action and the daily
\* insurance cost are non-decreasing in days_alive, at days_alive = 0 the
\* multiplier is 1.0 and the insurance cost 0.5, and these are the prices the
\* displayed pet is charged.
C24_CostsNonDecreasing ==
  /\ PricesByAge[0].multiplier = 100
  /\ PricesByAge[0].insurance = 50
  /\ \A d1 \in 0..AgeMax : \A d2 \in d1..AgeMax :
       /\ PricesByAge[d1].multiplier <= PricesByAge[d2].multiplier
       /\ PricesByAge[d1].insurance <= PricesByAge[d2].insurance
       /\ \A a \in ActionIds : PricesByAge[d1].care[a] <= PricesByAge[d2].care[a]
  /\ \A p \in cache :
       p.days_alive <= AgeMax =>
         /\ getCostMultiplier({p}) = PricesByAge[p.days_alive].multiplier
         /\ getInsuranceCost({p}) = PricesByAge[p.days_alive].insurance
         /\ \A a \in ActionIds : CareCost(a, {p}) = PricesByAge[p.days_alive].care[a]

\* the daily insurance payment has been charged at 1.0 on one day and at 1.5
\* on a later one
C24_Witness ==
  \E e1, e2 \in BagToSet(expenses) :
    /\ e1.description = "Daily insurance payment" /\ e1.amount = 100
    /\ e2.description = "Daily insurance payment" /\ e2.amount = 150

\* a step in which onComplete of the game shown ran
GameCompleted == last'.op = "game" /\ fuel' # fuel
\* a step in which onClose of the game shown ran
GameClosed == activeGame # "" /\ activeGame' = "" /\ fuel' = fuel

\* C25: closing a game issues no Pet.update: the stored pets and the ledger
\* stay as they are.  Completing a game issues exactly one update, of the
\* displayed pet: coins = its coins + the reward, and achievements; it leaves
\* every stat, the stage and the experience of the stored pet unchanged.
C25_GameChangesOnlyOnCompletion ==
  [][/\ GameClosed => (store' = store /\ expenses' = expenses)
     /\ GameCompleted =>
          LET p == ThePet(cache)
          IN /\ \E a \in {p.achievements, Append(p.achievements, "wealthy")} :
                  store' = PetUpdate(store, p.id,
                             [coins |-> p.coins + last'.n * S, achievements |-> a])
             /\ expenses' = expenses
             /\ \A q \in store : \A r \in store' :
                  q.id = r.id =>
                    \A f \in {"hunger", "happiness", "energy", "hygiene", "health",
                               "stage", "experience", "days_alive"} : r[f] = q[f]]_vars

\* a wire game without mistakes has been completed after a day passed and the
\* reward is stored
C25_Witness ==
  /\ last.op = "game" /\ last.n = 30 /\ activeGame = ""
  /\ \E p \in store : p.coins = 80 * S /\ p.days_alive = 1 /\ p.experience = 1

\* C26: the reward a chore hands to onComplete lies in the range the chores
\* menu shows for it: trash 10..20, window 15..25, wire 20..30.
C26_RewardInAdvertisedRange ==
  [][GameCompleted =>
       /\ activeGame = "trash" => (10 <= last'.n /\ last'.n <= 20)
       /\ activeGame = "window" => (15 <= last'.n /\ last'.n <= 25)
       /\ activeGame = "wire" => (20 <= last'.n /\ last'.n <= 30)]_vars

HealthRule(p, h, kept) ==
  LET criticalCount == CountBelow(p, 25 * S)
      lowCount == CountBelow(p, 50 * S)
  IN IF criticalCount >= 2
       THEN \E d \in 8 * S .. 15 * S : h = Max(0, p.health - d)
     ELSE IF lowCount >= 3
       THEN \E d \in 3 * S .. 7 * S : h = Max(0, p.health - d)
     ELSE IF lowCount = 0 THEN h = Min(100 * S, p.health + 5 * S)
     ELSE h = kept

\* scenario 3: no insurance, the four stats at 10, health 40
Scenario3(p) ==
  /\ ~p.has_insurance /\ p.health = 40 * S
  /\ \A f \in {"hunger", "happiness", "hygiene", "energy"} : p[f] = 10 * S

\* the death effect has run for a displayed pet of health 0
DeathMarked ==
  (page' = "care" /\ cache' # {} /\ ThePet(cache').health <= 0) => petDied'

C29_InsuranceFloor ==
  [][DayAdvanced =>
       \A tp \in timerPet : \A q \in store' :
         (tp.has_insurance /\ q.id = tp.id) =>
           LET criticalCount == CountBelow(tp, 25 * S)
               lowCount == CountBelow(tp, 50 * S)
               decays == criticalCount >= 2 \/ lowCount >= 3
               regenerates == ~decays /\ lowCount = 0 /\ tp.health < 100 * S
           IN /\ (decays \/ regenerates) =>
                   /\ q.health >= 20 * S
                   /\ q.health > 20 * S => HealthRule(tp, q.health, q.health)
              /\ (criticalCount >= 2 /\ tp.health < 28 * S) => q.health = 20 * S
              /\ (criticalCount < 2 /\ lowCount >= 3 /\ tp.health < 23 * S) =>
                   q.health = 20 * S
              /\ (regenerates /\ tp.health < 15 * S) => q.health = 20 * S]_vars

\* an insured pet of health 5 and no low stat after its day-advance: 20, not 10
C29_Witness ==
  /\ last.op = "day"
  /\ \E p \in store :
       /\ p.has_insurance /\ p.days_alive = 9 /\ p.happiness = 77 * S
       /\ p.health = 20 * S
       /\ \E e \in BagToSet(expenses) : e.pet_id = p.id

====
